---- MODULE Spec2Model ----
(***************************************************************************)
(* research-radar: the state store (src/src/util_state.py), the aggregator *)
(* and the pipeline coordinator (src/src/run.py).                          *)
(*                                                                         *)
(* Time is the POSIX timestamp in seconds.  A date string is the record    *)
(* [fmt, t]: fmt = "iso" for the text datetime.isoformat() writes and      *)
(* datetime.fromisoformat() reads back, "bad" for a text fromisoformat()   *)
(* rejects, "null" for None.  A dict is a function from its keys.          *)
(***************************************************************************)
EXTENDS Integers, Sequences, FiniteSets, TLC

VARIABLES
    now,        \* datetime.utcnow().timestamp()
    file,       \* state/seen_ids.json on disk
    tmp,        \* state/seen_ids.tmp on disk
    state,      \* StateManager.state of the live instance
    pc,         \* position of the running code
    ret,        \* the caller _save_state returns to
    saveDoc,    \* the argument of the _save_state call in progress
    exc,        \* how the last StateManager call ended
    call,       \* the last StateManager call: arguments, result, state before
    config,     \* config.yaml and the environment of the current run
    papers,                 \* main: papers
    unseen_papers,          \* main: unseen_papers
    papers_to_process,      \* main: papers_to_process
    papers_with_summaries,  \* main: papers_with_summaries
    sendResult, \* how the publish step of the current run ended
    published,  \* history: per id, the number of digests sent that hold it
    committed,  \* history: per id, when mark_as_sent last persisted it
    prevRun,    \* history: input and unseen set of the run that ended last
    found,      \* what the searchers return to the search_papers call under test
    raised,     \* history: where the current run raised an exception
    llm,        \* history: what the model answered to each score_paper call
    scored,     \* main: unseen_papers as the scoring loop has left them
    last_request_time,  \* per searcher or scorer instance: self.last_request_time
    requests,   \* history: per instance, when its last two outbound calls were made
    runs,       \* per overlapping run: its StateManager and where the run is
    summaries   \* history: what summarize returned for each paper it was given

storeVars == <<now, file, tmp, state, pc, ret, saveDoc, exc, call>>

runVars == <<config, papers, unseen_papers, papers_to_process,
             papers_with_summaries, sendResult, published, committed, prevRun,
             found, raised, llm, scored, last_request_time, requests, runs,
             summaries>>

locals == <<config, papers, unseen_papers, papers_to_process,
            papers_with_summaries, sendResult, raised, llm, scored>>

vars == <<now, file, tmp, state, pc, ret, saveDoc, exc, call, config, papers,
          unseen_papers, papers_to_process, papers_with_summaries, sendResult,
          published, committed, prevRun, found, raised, llm, scored,
          last_request_time, requests, runs, summaries>>

\* ------------------------------------------------------------ bounds
MaxNowDays == 32        \* the clock stops here
EpochDays  == 31        \* the clock of the store harness starts here
MaxPapers  == 2         \* longest list given to filter_unseen / mark_as_sent

Day == 24 * 60 * 60

\* ------------------------------------------------------------ values
None == "<None>"
Null == [fmt |-> "null", t |-> 0]
BadDate == [fmt |-> "bad", t |-> 0]

\* datetime.isoformat()
IsoFormat(t) == [fmt |-> "iso", t |-> t]

\* datetime.fromisoformat(s) raises ValueError
RaisesValueError(s) == s.fmt # "iso"

\* datetime.fromisoformat(s).timestamp()
FromIsoFormat(s) == s.t

NoPapers == [k \in {} |-> Null]

\* {"papers": {}, "last_run": None}
EmptyState == [papers |-> NoPapers, last_run |-> Null]

Range(s) == {s[i] : i \in 1..Len(s)}

\* dict.get(key, default)
Get(d, k, default) == IF k \in DOMAIN d THEN d[k] ELSE default

\* {**a, **b}
Merge(a, b) == b @@ a

\* ------------------------------------------------------------ files
Missing == [kind |-> "missing", doc |-> EmptyState]

\* json.dump(state, f, indent=2, default=str) run to its end
JsonDump(doc) == [kind |-> "json", doc |-> doc]

\* a file opened for writing whose json.dump has not finished: a prefix of
\* the text, which holds no document
Partial(doc) == [kind |-> "partial", doc |-> EmptyState]

\* json.load: the text parses as the document that was dumped
JsonLoads(f) == f.doc

\* json.load raises json.JSONDecodeError: truncated or otherwise not JSON
RaisesJSONDecodeError(f) == f.kind \in {"partial", "badjson"}

\* f.read() raises UnicodeDecodeError: bytes that are not text
RaisesUnicodeDecodeError(f) == f.kind = "badbytes"

\* the canonical file is a complete, parseable state document
Parseable(f) == f.kind = "json"

\* json.load gives a value that is not a dict (valid JSON of another shape)
NotADict == [notdict |-> TRUE]

IsDict(st) == "notdict" \notin DOMAIN st

\* json.load(f) on a file that parses
JsonLoad(f) == IF f.kind = "badshape" THEN NotADict ELSE JsonLoads(f)

\* ------------------------------------------------------------ StateManager
\* get_seen_ids
get_seen_ids(st) == DOMAIN Get(st, "papers", NoPapers)

\* filter_unseen comparing the doi instead of the id
filter_unseen_doi(st, ps) ==
    LET seen_ids == get_seen_ids(st)
    IN  SelectSeq(ps, LAMBDA p : Get(p, "doi", None) \notin seen_ids)

\* filter_unseen dropping the records that have no id
filter_unseen_truthy(st, ps) ==
    LET seen_ids == get_seen_ids(st)
    IN  SelectSeq(ps, LAMBDA p : Get(p, "id", None) \notin seen_ids \cup {"", None})

\* filter_unseen
filter_unseen(st, ps) ==
    LET seen_ids == get_seen_ids(st)
    IN  SelectSeq(ps, LAMBDA p : Get(p, "id", None) \notin seen_ids)

\* mark_as_sent that never assigns the new entries to self.state["papers"]
mark_as_sent_unsaved(st, paper_ids, paper_metadata, t) ==
    [st EXCEPT !.last_run = IsoFormat(t)]

\* mark_as_sent that leaves last_run alone
mark_as_sent_no_last_run(st, paper_ids, paper_metadata, t) ==
    LET entries == Get(st, "papers", NoPapers)
        ids == Range(paper_ids)
    IN  [st EXCEPT !.papers =
            [k \in DOMAIN entries \cup ids |->
               IF k \in ids
               THEN Merge([sent_date |-> IsoFormat(t)], Get(paper_metadata, k, NoPapers))
               ELSE entries[k]]]

\* mark_as_sent up to its _save_state call
mark_as_sent(st, paper_ids, paper_metadata, t) ==
    LET entries == Get(st, "papers", NoPapers)
        current_time == IsoFormat(t)
        ids == Range(paper_ids)
        new == [k \in DOMAIN entries \cup ids |->
                  IF k \in ids
                  THEN Merge([sent_date |-> current_time],
                             Get(paper_metadata, k, NoPapers))
                  ELSE entries[k]]
    IN  [st EXCEPT !.papers = new, !.last_run = current_time]

\* the test of cleanup_old_entries on one entry
kept(metadata, cutoff) ==
    LET sent_date == Get(metadata, "sent_date", Null)
    IN  IF sent_date.fmt # "null"
        THEN IF RaisesValueError(sent_date)
             THEN TRUE
             ELSE FromIsoFormat(sent_date) > cutoff
        ELSE TRUE

\* cleanup_old_entries taking days for hours
cleanup_old_entries_hours(st, days, t) ==
    LET cutoff == t - (days * 60 * 60)
        entries == Get(st, "papers", NoPapers)
        cleaned == {k \in DOMAIN entries : kept(entries[k], cutoff)}
    IN  [st EXCEPT !.papers = [k \in cleaned |-> entries[k]]]

\* cleanup_old_entries up to its _save_state call
cleanup_old_entries(st, days, t) ==
    LET cutoff == t - (days * 24 * 60 * 60)
        entries == Get(st, "papers", NoPapers)
        cleaned == {k \in DOMAIN entries : kept(entries[k], cutoff)}
    IN  [st EXCEPT !.papers = [k \in cleaned |-> entries[k]]]


\* ------------------------------------------------------------ papers
\* a date string is the sequence of its characters, here numbers; '' is << >>
\* a < b as Python compares two strings
StrLess(a, b) ==
    \E k \in 0..Len(a) :
        /\ k <= Len(b)
        /\ \A j \in 1..k : a[j] = b[j]
        /\ IF k = Len(a) THEN Len(b) > k ELSE k < Len(b) /\ a[k + 1] < b[k + 1]

\* the ids of the papers the sources of a run return
RunIds == {"a", "d"}

NoConfig == [use_relevance_filtering |-> FALSE, recipients |-> FALSE,
             max_summaries |-> 0, gemini_api_key |-> FALSE,
             highly_relevant_threshold |-> 0, also_relevant_threshold |-> 0,
             min_total_papers |-> 0]

NoFound == [nq |-> 0, res |-> << >>]

\* no searcher or scorer instance is under test
NoRequests == << >>

\* no overlapping runs are under test
NoRuns == << >>

NoRun == [failed |-> FALSE, agg |-> << >>, unseen |-> << >>]

\* ------------------------------------------------------------ aggregator
Sources == <<"arxiv", "crossref", "semantic_scholar">>

\* the key search_papers deduplicates a source's records on: paper.get('doi')
\* for Crossref, paper.get('id') for arXiv and Semantic Scholar
DedupKey(source, p) ==
    IF source = "crossref" THEN Get(p, "doi", None) ELSE Get(p, "id", None)

\* Python's truth value of an id or doi
Truthy(v) == v \notin {"", None}

\* the loop without the "not in seen_ids" test
RECURSIVE Admit_NoDedup(_, _, _)
Admit_NoDedup(acc, source, got) ==
    IF got = << >> THEN acc
    ELSE LET p == Head(got)
             k == DedupKey(source, p)
         IN  IF Truthy(k)
             THEN Admit_NoDedup([all |-> Append(acc.all, p), seen |-> acc.seen \cup {k}],
                                source, Tail(got))
             ELSE Admit_NoDedup(acc, source, Tail(got))

\* one "for paper in papers" loop of search_papers: acc = [all, seen]
RECURSIVE Admit(_, _, _)
Admit(acc, source, got) ==
    IF got = << >> THEN acc
    ELSE LET p == Head(got)
             k == DedupKey(source, p)
         IN  IF Truthy(k) /\ k \notin acc.seen
             THEN Admit([all |-> Append(acc.all, p), seen |-> acc.seen \cup {k}],
                        source, Tail(got))
             ELSE Admit(acc, source, Tail(got))

\* one "for query in queries" loop: res[source][q] is what searcher.search
\* returns for the q-th query
RECURSIVE QueryLoop(_, _, _, _, _)
QueryLoop(acc, source, res, q, n) ==
    IF q > n THEN acc
    ELSE QueryLoop(Admit(acc, source, res[source][q]), source, res, q + 1, n)

\* a descending sort that puts a record before the records of the same date
RECURSIVE SortByDateDesc_Unstable(_)
SortByDateDesc_Unstable(s) ==
    IF s = << >> THEN << >>
    ELSE LET r == SortByDateDesc_Unstable(SubSeq(s, 1, Len(s) - 1))
             x == s[Len(s)]
             key(p) == Get(p, "date", << >>)
             at == Cardinality({i \in 1..Len(r) : StrLess(key(x), key(r[i]))})
         IN  SubSeq(r, 1, at) \o <<x>> \o SubSeq(r, at + 1, Len(r))

\* list.sort(key=date, reverse=True): stable, descending, '' for no date
RECURSIVE SortByDateDesc(_)
SortByDateDesc(s) ==
    IF s = << >> THEN << >>
    ELSE LET r == SortByDateDesc(SubSeq(s, 1, Len(s) - 1))
             x == s[Len(s)]
             key(p) == Get(p, "date", << >>)
             \* x goes after every record whose date is not smaller than its own
             at == Cardinality({i \in 1..Len(r) : ~StrLess(key(r[i]), key(x))})
         IN  SubSeq(r, 1, at) \o <<x>> \o SubSeq(r, at + 1, Len(r))

\* search_papers, from "if not queries" on
search_papers(nqueries, res) ==
    IF nqueries = 0 THEN << >>
    ELSE LET a0 == [all |-> << >>, seen |-> {}]
             a1 == QueryLoop(a0, "arxiv", res, 1, nqueries)
             a2 == QueryLoop(a1, "crossref", res, 1, nqueries)
             a3 == QueryLoop(a2, "semantic_scholar", res, 1, nqueries)
         IN  SortByDateDesc(a3.all)

\* ------------------------------------------------------------ control
SavePcs == {"save_open", "save_dump", "save_replace"}

\* where control goes when a StateManager call made with return tag r returns:
\* main runs __init__, cleanup_old_entries, search_papers in this order and
\* mark_as_sent last; the harness goes back to its caller
OkPc(r) ==
    CASE r = "init"    -> "cleanup"
      [] r = "cleanup" -> "search"
      [] r = "mark"    -> "done"
      [] OTHER         -> "api_returned"

\* the call raises and main has no handler around mark_as_sent either
RaisePc_NoHandler(r) ==
    CASE r \in {"init", "cleanup", "mark"} -> "aborted"
      [] r = "api_init"                    -> "api_new"
      [] OTHER                             -> "api_returned"

\* where control goes when the call raises: main has no handler around
\* __init__ and cleanup_old_entries, and the handler of its try block around
\* mark_as_sent falls through to the end of main
RaisePc(r) ==
    CASE r \in {"init", "cleanup"} -> "aborted"
      [] r = "mark"                -> "done"
      [] r = "api_init"            -> "api_new"
      [] OTHER                     -> "api_returned"

NoCall == [op |-> "none", ids |-> << >>, meta |-> NoPapers, days |-> 0,
           t |-> 0, pre |-> EmptyState, loaded |-> Missing, res |-> << >>]

\* _save_state is entered with document d by the caller tagged r
EnterSave(d, r) ==
    /\ pc' = "save_open"
    /\ ret' = r
    /\ saveDoc' = d

\* _load_state, called by __init__ of the caller tagged r
LoadState(r) ==
    IF file.kind = "missing"
    THEN /\ EnterSave(EmptyState, r)
         /\ UNCHANGED <<state, exc>>
    ELSE IF RaisesUnicodeDecodeError(file)
    THEN /\ pc' = RaisePc(r)
         /\ exc' = "raised"
         /\ UNCHANGED <<state, ret, saveDoc>>
    ELSE /\ state' = IF RaisesJSONDecodeError(file) THEN EmptyState
                     ELSE JsonLoad(file)
         /\ pc' = OkPc(r)
         /\ exc' = "none"
         /\ UNCHANGED <<ret, saveDoc>>

\* the ids main passes to mark_as_sent: p.get('id') of the papers of the
\* digest, the empty and missing ones left out
DigestIds ==
    {Get(papers_with_summaries[i], "id", None) :
        i \in 1..Len(papers_with_summaries)} \ {"", None}

\* _save_state opening the canonical file itself for writing
SaveOpen_InPlace ==
    /\ pc = "save_open"
    /\ file' = Partial(saveDoc)
    /\ pc' = "save_dump"
    /\ UNCHANGED <<now, tmp, state, ret, saveDoc, exc, call>>
    /\ UNCHANGED runVars

\* open(temp_file, 'w') of _save_state
SaveOpen ==
    /\ pc = "save_open"
    /\ \/ /\ tmp' = Partial(saveDoc)
          /\ pc' = "save_dump"
          /\ UNCHANGED <<state, exc>>
       \/ /\ tmp' = Missing
          /\ pc' = RaisePc(ret)
          /\ exc' = "raised"
          /\ state' = IF ret \in {"init", "api_init"} THEN EmptyState ELSE state
    /\ UNCHANGED <<now, file, ret, saveDoc, call>>
    /\ UNCHANGED runVars

\* json.dump whose failure leaves the half-written temporary file in place
SaveDump_KeepTemp ==
    /\ pc = "save_dump"
    /\ \/ /\ tmp' = JsonDump(saveDoc)
          /\ pc' = "save_replace"
          /\ UNCHANGED <<state, exc>>
       \/ /\ tmp' = tmp
          /\ pc' = RaisePc(ret)
          /\ exc' = "raised"
          /\ state' = IF ret \in {"init", "api_init"} THEN EmptyState ELSE state
    /\ UNCHANGED <<now, file, ret, saveDoc, call>>
    /\ UNCHANGED runVars

\* json.dump(state, f) and the close of the with block
SaveDump ==
    /\ pc = "save_dump"
    /\ \/ /\ tmp' = JsonDump(saveDoc)
          /\ pc' = "save_replace"
          /\ UNCHANGED <<state, exc>>
       \/ /\ tmp' = Missing
          /\ pc' = RaisePc(ret)
          /\ exc' = "raised"
          /\ state' = IF ret \in {"init", "api_init"} THEN EmptyState ELSE state
    /\ UNCHANGED <<now, file, ret, saveDoc, call>>
    /\ UNCHANGED runVars

\* temp_file.replace(self.state_file)
SaveReplace ==
    /\ pc = "save_replace"
    /\ \/ /\ file' = tmp
          /\ tmp' = Missing
          /\ pc' = OkPc(ret)
          /\ exc' = "none"
          /\ state' = IF ret \in {"init", "api_init"} THEN saveDoc ELSE state
          /\ committed' = IF ret = "mark"
                          THEN [i \in DOMAIN committed |->
                                  IF i \in DigestIds THEN now ELSE committed[i]]
                          ELSE committed
       \/ /\ tmp' = Missing
          /\ pc' = RaisePc(ret)
          /\ exc' = "raised"
          /\ state' = IF ret \in {"init", "api_init"} THEN EmptyState ELSE state
          /\ UNCHANGED <<file, committed>>
    /\ UNCHANGED <<now, ret, saveDoc, call>>
    /\ UNCHANGED <<config, papers, unseen_papers, papers_to_process,
                   papers_with_summaries, sendResult, published, prevRun, found, raised, llm, scored,
                   last_request_time, requests, runs,
                   summaries>>

\* ------------------------------------------------------------ store harness
StoreIds == {"a", "b"}

Title(id) == "T_" \o id

\* the papers a caller passes to filter_unseen
HarnessPapers ==
    {[id |-> i, title |-> Title(i)] : i \in StoreIds \cup {""}}
        \cup {[title |-> "untitled"]}

SeqsUpTo(S, n) == UNION {[1..k -> S] : k \in 0..n}

\* paper_metadata as main builds it: {id: {'title': title}}
MetaInputs == {[k \in S |-> [title |-> Title(k)]] : S \in {{}, StoreIds}}

DaysInputs == {1, 30}

\* entries found in a state file when the harness starts: for "a" an entry
\* sent 29, 30 or 31 days before, one with no sent_date, one with a sent_date
\* that is no ISO date; for "b" an entry sent 29 days before
InitEntries(i) ==
    IF i = "a"
    THEN {[sent_date |-> IsoFormat((EpochDays - d) * Day), title |-> Title(i)] :
            d \in {29, 30, 31}}
          \cup {[title |-> Title(i)], [sent_date |-> BadDate, title |-> Title(i)]}
    ELSE {[sent_date |-> IsoFormat((EpochDays - 29) * Day), title |-> Title(i)]}

InitDocs ==
    UNION {{[papers |-> f, last_run |-> Null] :
              f \in {g \in [S -> UNION {InitEntries(i) : i \in S}] :
                        \A i \in S : g[i] \in InitEntries(i)}} :
           S \in {{}, {"a"}, {"a", "b"}}}

InitFiles ==
    {Missing} \cup {[kind |-> k, doc |-> EmptyState] :
                      k \in {"badjson", "badbytes", "badshape"}}
              \cup {JsonDump(d) : d \in InitDocs}

InitStore ==
    /\ now = EpochDays * Day
    /\ file \in InitFiles
    /\ tmp = Missing
    /\ state = EmptyState
    /\ pc = "api_new"
    /\ ret = "none"
    /\ saveDoc = EmptyState
    /\ exc = "none"
    /\ call = NoCall
    /\ config = NoConfig
    /\ papers = << >>
    /\ unseen_papers = << >>
    /\ papers_to_process = << >>
    /\ papers_with_summaries = << >>
    /\ sendResult = "none"
    /\ published = [i \in RunIds |-> 0]
    /\ committed = [i \in RunIds |-> -1]
    /\ prevRun = NoRun
    /\ found = NoFound
    /\ raised = {}
    /\ llm = << >>
    /\ scored = << >>
    /\ last_request_time = NoRequests
    /\ requests = NoRequests
    /\ runs = NoRuns
    /\ summaries = << >>

\* state_manager = StateManager()
ApiConstruct ==
    /\ pc = "api_new"
    /\ call' = [NoCall EXCEPT !.op = "init", !.loaded = file]
    /\ LoadState("api_init")
    /\ UNCHANGED <<now, file, tmp>>
    /\ UNCHANGED runVars

\* state_manager.filter_unseen(papers)
ApiFilterUnseen ==
    /\ pc = "api_ready"
    /\ IsDict(state)
    /\ \E ps \in SeqsUpTo(HarnessPapers, MaxPapers) :
          call' = [NoCall EXCEPT !.op = "filter_unseen", !.ids = ps,
                                 !.pre = state,
                                 !.res = filter_unseen(state, ps)]
    /\ exc' = "none"
    /\ pc' = "api_returned"
    /\ UNCHANGED <<now, file, tmp, state, ret, saveDoc>>
    /\ UNCHANGED runVars

\* state_manager.mark_as_sent(paper_ids, paper_metadata)
ApiMarkAsSent ==
    /\ pc = "api_ready"
    /\ IsDict(state)
    /\ \E paper_ids \in SeqsUpTo(StoreIds, MaxPapers), meta \in MetaInputs :
          /\ call' = [NoCall EXCEPT !.op = "mark_as_sent", !.ids = paper_ids,
                                    !.meta = meta, !.t = now, !.pre = state]
          /\ state' = mark_as_sent(state, paper_ids, meta, now)
    /\ EnterSave(state', "api_mark")
    /\ UNCHANGED <<now, file, tmp, exc>>
    /\ UNCHANGED runVars

\* state_manager.cleanup_old_entries(days)
ApiCleanup ==
    /\ pc = "api_ready"
    /\ IsDict(state)
    /\ \E days \in DaysInputs :
          /\ call' = [NoCall EXCEPT !.op = "cleanup_old_entries",
                                    !.days = days, !.t = now, !.pre = state]
          /\ state' = cleanup_old_entries(state, days, now)
    /\ EnterSave(state', "api_cleanup")
    /\ UNCHANGED <<now, file, tmp, exc>>
    /\ UNCHANGED runVars

\* any method of a StateManager whose state is not a dict: self.state.get
\* raises AttributeError
ApiAttributeError ==
    /\ pc = "api_ready"
    /\ ~IsDict(state)
    /\ exc' = "raised"
    /\ call' = [NoCall EXCEPT !.op = "attribute_error"]
    /\ pc' = "api_returned"
    /\ UNCHANGED <<now, file, tmp, state, ret, saveDoc>>
    /\ UNCHANGED runVars

\* the caller has looked at the outcome of the call and goes on
ApiReturn ==
    /\ pc = "api_returned"
    /\ pc' = "api_ready"
    /\ call' = NoCall
    /\ UNCHANGED <<now, file, tmp, state, ret, saveDoc, exc>>
    /\ UNCHANGED runVars

\* the process holding the StateManager ends or is killed, at any point
ApiCrash ==
    /\ pc \in SavePcs \cup {"api_ready", "api_returned"}
    /\ pc' = "api_new"
    /\ state' = EmptyState
    /\ ret' = "none"
    /\ saveDoc' = EmptyState
    /\ exc' = "none"
    /\ call' = NoCall
    /\ UNCHANGED <<now, file, tmp>>
    /\ UNCHANGED runVars

\* a day passes between two calls
ApiTick ==
    /\ pc \in {"api_ready", "api_new"}
    /\ now < MaxNowDays * Day
    /\ now' = now + Day
    /\ UNCHANGED <<file, tmp, state, pc, ret, saveDoc, exc, call>>
    /\ UNCHANGED runVars

NextStore ==
    \/ ApiConstruct
    \/ ApiFilterUnseen
    \/ ApiMarkAsSent
    \/ ApiCleanup
    \/ ApiAttributeError
    \/ ApiReturn
    \/ ApiCrash
    \/ ApiTick
    \/ SaveOpen
    \/ SaveDump
    \/ SaveReplace

SpecStore == InitStore /\ [][NextStore]_vars

\* ------------------------------------------------------------ pipeline
NQueries == 2           \* len(fallback_queries) of the configuration
TickDays == 20          \* days between two runs of the schedule
RunMaxDays == 40        \* the clock of the pipeline stops here
MinTotalPapers == 2     \* min_total_papers of the configuration
MaxClock == 13          \* the clock of the rate limiter harness stops here

highly_relevant_threshold == 7
also_relevant_threshold == 5

\* what the sources hold during the runs
A1 == [id |-> "a", doi |-> None, title |-> "T_a", date |-> <<2, 0>>,
       source |-> "arxiv"]
A0 == [id |-> "", doi |-> None, title |-> "T_x", date |-> << >>,
       source |-> "arxiv"]
D1 == [id |-> "d", doi |-> "d", title |-> "T_d", date |-> <<1, 0>>,
       source |-> "crossref"]

\* a Semantic Scholar item whose "title" is null: item.get('title', '') is None
S0 == [id |-> "s2:n", title |-> None, date |-> <<2>>,
       source |-> "semantic_scholar"]

\* what a connector gets from its service for one query: the records it builds
\* from the reply, a transport failure (requests.exceptions.RequestException,
\* feed.bozo), or a reply it cannot take apart (data is not a dict, a list
\* field is null: AttributeError, TypeError)
Records(ps) == [kind |-> "records", papers |-> ps]
TransportError == [kind |-> "transport_error", papers |-> << >>]
ParseError == [kind |-> "parse_error", papers |-> << >>]

\* searcher.search raises: ArxivSearcher and CrossrefSearcher catch Exception,
\* SemanticScholarSearcher catches requests.exceptions.RequestException only
SearchRaises(source, response) ==
    source = "semantic_scholar" /\ response.kind = "parse_error"

\* what searcher.search returns when it does not raise
search(source, response) ==
    IF response.kind = "records" THEN response.papers ELSE << >>

\* what the three services answer to a query during the runs
RunResponses(source) ==
    CASE source = "arxiv" ->
            {TransportError, Records(<<A1>>), Records(<<A0, A1>>)}
      [] source = "crossref" ->
            {ParseError, Records(<<D1>>)}
      [] source = "semantic_scholar" ->
            {Records(<< >>), Records(<<S0>>), ParseError}

\* seen_ids of search_papers: the key of every record admitted so far
SeenIds(all_papers) ==
    {DedupKey(all_papers[i].source, all_papers[i]) : i \in 1..Len(all_papers)}

\* one "for query in queries" loop of search_papers over the answers rsp of
\* the source's service, entered with all_papers
SourceLoop(all_papers, source, rsp) ==
    QueryLoop([all |-> all_papers, seen |-> SeenIds(all_papers)], source,
              [src \in {source} |-> [q \in 1..NQueries |-> search(source, rsp[q])]],
              1, NQueries).all

RunConfigs ==
    [use_relevance_filtering : BOOLEAN, recipients : BOOLEAN,
     max_summaries : {1, 2}, gemini_api_key : BOOLEAN,
     highly_relevant_threshold : {highly_relevant_threshold},
     also_relevant_threshold : {also_relevant_threshold},
     min_total_papers : {MinTotalPapers}]

Scores == {0, 6, 9}

RunInitFiles ==
    {Missing, JsonDump(EmptyState),
     JsonDump([papers |-> [k \in {"d"} |-> [title |-> "T_d"]], last_run |-> Null])}
      \cup {[kind |-> k, doc |-> EmptyState] : k \in {"badjson", "badbytes", "badshape"}}

\* p[k] = v of a dict
Put(p, k, v) == (k :> v) @@ p

\* list.sort(key=relevance_score, reverse=True): stable, descending
RECURSIVE SortByScoreDesc(_)
SortByScoreDesc(s) ==
    IF s = << >> THEN << >>
    ELSE LET r == SortByScoreDesc(SubSeq(s, 1, Len(s) - 1))
             x == s[Len(s)]
             key(p) == Get(p, "relevance_score", 0)
             at == Cardinality({i \in 1..Len(r) : key(r[i]) >= key(x)})
         IN  SubSeq(r, 1, at) \o <<x>> \o SubSeq(r, at + 1, Len(r))

\* s[:n]
Take(s, n) == SubSeq(s, 1, IF n < Len(s) THEN (IF n < 0 THEN 0 ELSE n) ELSE Len(s))

\* what generate_content does for one score_paper call: it raises, it gives
\* no text, or it gives a text whose SCORE line reads score
LLMResponses ==
    {[kind |-> k, score |-> 0] : k \in {"error", "empty"}}
        \cup {[kind |-> "text", score |-> s] : s \in Scores}

\* title[:60] works
Subscriptable(title) == title # None

\* score_paper raises: its two failure branches print title[:50]
score_paper_raises(paper, response) ==
    /\ response.kind \in {"error", "empty"}
    /\ ~Subscriptable(Get(paper, "title", "Unknown"))

\* the answers of the model that the run inputs leave out: a text with no
\* SCORE line, a text whose SCORE line float() rejects, and texts whose SCORE
\* line reads a number outside 0..10
OddResponses ==
    {[kind |-> k, score |-> 0] : k \in {"noscore", "badscore"}}
        \cup {[kind |-> "text", score |-> s] : s \in {0 - 3, 15}}

\* (score, reason) of score_paper when it returns: score = float(score_str)
\* of the SCORE line, and the initial 0.0 when no SCORE line parses
score_paper(paper, response) ==
    IF response.kind = "text" THEN <<response.score, "R">>
    ELSE IF response.kind \in {"noscore", "badscore"} THEN <<0, "R">>
    ELSE IF response.kind = "empty" THEN <<0, "Failed to score">>
    ELSE <<0, "Error">>

\* the index of the first paper the loops of main stop at with a TypeError:
\* paper.get('title', 'Unknown')[:60] of a title that is None
FirstUnprintable(ps) ==
    IF \E i \in 1..Len(ps) : ~Subscriptable(Get(ps[i], "title", "Unknown"))
    THEN CHOOSE i \in 1..Len(ps) :
            /\ ~Subscriptable(Get(ps[i], "title", "Unknown"))
            /\ \A j \in 1..(i - 1) : Subscriptable(Get(ps[j], "title", "Unknown"))
    ELSE Len(ps) + 1

\* the scoring loop that also writes the reason over the title of the paper
ScoreLoop_IntoTitle(unseen, responses, k) ==
    [i \in 1..Len(unseen) |->
        IF i <= k
        THEN Put(Put(Put(unseen[i], "relevance_score",
                         score_paper(unseen[i], responses[i])[1]),
                     "relevance_reason", score_paper(unseen[i], responses[i])[2]),
                 "title", score_paper(unseen[i], responses[i])[2])
        ELSE unseen[i]]

\* the scoring loop of main after k papers: paper['relevance_score'] = score,
\* paper['relevance_reason'] = reason for the first k unseen papers
ScoreLoop(unseen, responses, k) ==
    [i \in 1..Len(unseen) |->
        IF i <= k
        THEN Put(Put(unseen[i], "relevance_score", score_paper(unseen[i], responses[i])[1]),
                 "relevance_reason", score_paper(unseen[i], responses[i])[2])
        ELSE unseen[i]]

\* the selection with the floor left out of the top-up
SelectPapers_NoFloor(batch, highly, also, min_total_papers) ==
    LET scored_papers == SortByScoreDesc(batch)
        highly_relevant ==
            SelectSeq(scored_papers,
                LAMBDA p : Get(p, "relevance_score", 0) >= highly)
        also_relevant ==
            SelectSeq(scored_papers,
                LAMBDA p : Get(p, "relevance_score", 0) < highly)
    IN  IF Len(highly_relevant) < min_total_papers /\ also_relevant # << >>
        THEN highly_relevant \o Take(also_relevant, min_total_papers - Len(highly_relevant))
        ELSE highly_relevant

\* the selection with the top-up taken in the order of the unseen papers
SelectPapers_Unsorted(batch, highly, also, min_total_papers) ==
    LET scored_papers ==
            SelectSeq(batch, LAMBDA p : p.relevance_score >= also)
        highly_relevant ==
            SelectSeq(scored_papers,
                LAMBDA p : Get(p, "relevance_score", 0) >= highly)
        also_relevant ==
            SelectSeq(scored_papers,
                LAMBDA p : /\ also <= Get(p, "relevance_score", 0)
                           /\ Get(p, "relevance_score", 0) < highly)
    IN  IF Len(highly_relevant) < min_total_papers /\ also_relevant # << >>
        THEN highly_relevant \o Take(also_relevant, min_total_papers - Len(highly_relevant))
        ELSE highly_relevant

\* main, the two-tier selection: batch[i] is unseen_papers[i] with its score
SelectPapers(batch, highly, also, min_total_papers) ==
    LET scored_papers ==
            SortByScoreDesc(SelectSeq(batch, LAMBDA p : p.relevance_score >= also))
        highly_relevant ==
            SelectSeq(scored_papers,
                LAMBDA p : Get(p, "relevance_score", 0) >= highly)
        also_relevant ==
            SelectSeq(scored_papers,
                LAMBDA p : /\ also <= Get(p, "relevance_score", 0)
                           /\ Get(p, "relevance_score", 0) < highly)
    IN  IF Len(highly_relevant) < min_total_papers /\ also_relevant # << >>
        THEN highly_relevant \o Take(also_relevant, min_total_papers - Len(highly_relevant))
        ELSE highly_relevant

ClearLocals ==
    /\ config' = NoConfig
    /\ papers' = << >>
    /\ unseen_papers' = << >>
    /\ papers_to_process' = << >>
    /\ papers_with_summaries' = << >>
    /\ sendResult' = "none"
    /\ raised' = {}
    /\ llm' = << >>
    /\ scored' = << >>
    /\ summaries' = << >>

Init ==
    /\ now = 0
    /\ file \in RunInitFiles
    /\ tmp = Missing
    /\ state = EmptyState
    /\ pc = "idle"
    /\ ret = "none"
    /\ saveDoc = EmptyState
    /\ exc = "none"
    /\ call = NoCall
    /\ config = NoConfig
    /\ papers = << >>
    /\ unseen_papers = << >>
    /\ papers_to_process = << >>
    /\ papers_with_summaries = << >>
    /\ sendResult = "none"
    /\ published = [i \in RunIds |-> 0]
    /\ committed = [i \in RunIds |-> -1]
    /\ prevRun = NoRun
    /\ found = NoFound
    /\ raised = {}
    /\ llm = << >>
    /\ scored = << >>
    /\ last_request_time = NoRequests
    /\ requests = NoRequests
    /\ runs = NoRuns
    /\ summaries = << >>

\* main starts: load_config
StartRun ==
    /\ pc = "idle"
    /\ pc' = "init"
    /\ config' \in RunConfigs
    /\ UNCHANGED <<now, file, tmp, state, ret, saveDoc, exc, call, papers,
                   unseen_papers, papers_to_process, papers_with_summaries,
                   sendResult, published, committed, prevRun, found, raised, llm, scored,
                   last_request_time, requests, runs,
                   summaries>>

\* state_manager = StateManager()
Construct ==
    /\ pc = "init"
    /\ call' = [NoCall EXCEPT !.op = "init", !.loaded = file]
    /\ LoadState("init")
    /\ UNCHANGED <<now, file, tmp>>
    /\ UNCHANGED runVars

\* state_manager.cleanup_old_entries(30)
Cleanup ==
    /\ pc = "cleanup"
    /\ IF IsDict(state)
       THEN /\ state' = cleanup_old_entries(state, 30, now)
            /\ EnterSave(state', "cleanup")
            /\ UNCHANGED exc
       ELSE /\ pc' = RaisePc("cleanup")
            /\ exc' = "raised"
            /\ UNCHANGED <<state, ret, saveDoc>>
    /\ UNCHANGED <<now, file, tmp, call>>
    /\ UNCHANGED runVars

\* papers = search_papers(config), the arXiv loop; papers holds all_papers
SearchArxiv ==
    /\ pc = "search"
    /\ \E rsp \in [1..NQueries -> RunResponses("arxiv")] :
          papers' = SourceLoop(<< >>, "arxiv", rsp)
    /\ pc' = "search_crossref"
    /\ UNCHANGED <<now, file, tmp, state, ret, saveDoc, exc, call, config,
                   unseen_papers, papers_to_process, papers_with_summaries,
                   sendResult, published, committed, prevRun, found, raised, llm, scored,
                   last_request_time, requests, runs,
                   summaries>>

\* search_papers, the Crossref loop
SearchCrossref ==
    /\ pc = "search_crossref"
    /\ \E rsp \in [1..NQueries -> RunResponses("crossref")] :
          papers' = SourceLoop(papers, "crossref", rsp)
    /\ pc' = "search_semantic_scholar"
    /\ UNCHANGED <<now, file, tmp, state, ret, saveDoc, exc, call, config,
                   unseen_papers, papers_to_process, papers_with_summaries,
                   sendResult, published, committed, prevRun, found, raised, llm, scored,
                   last_request_time, requests, runs,
                   summaries>>

\* search_papers, the Semantic Scholar loop, the sort by date, and
\* "if not papers: return" of main; a search call that raises ends
\* search_papers and main
SearchSemanticScholar ==
    /\ pc = "search_semantic_scholar"
    /\ \E rsp \in [1..NQueries -> RunResponses("semantic_scholar")] :
          IF \E q \in 1..NQueries : SearchRaises("semantic_scholar", rsp[q])
          THEN /\ raised' = raised \cup {"search"}
               /\ papers' = << >>
               /\ pc' = "aborted"
          ELSE /\ papers' = SortByDateDesc(SourceLoop(papers, "semantic_scholar", rsp))
               /\ pc' = IF papers' = << >> THEN "done" ELSE "filter"
               /\ UNCHANGED raised
    /\ UNCHANGED <<now, file, tmp, state, ret, saveDoc, exc, call, config,
                   unseen_papers, papers_to_process, papers_with_summaries,
                   sendResult, published, committed, prevRun, found, llm, scored,
                   last_request_time, requests, runs,
                   summaries>>

\* filter_unseen without the return on an empty result
FilterUnseen_NoReturn ==
    /\ pc = "filter"
    /\ unseen_papers' = filter_unseen(state, papers)
    /\ pc' = "relevance"
    /\ UNCHANGED <<now, file, tmp, state, ret, saveDoc, exc, call, config,
                   papers, papers_to_process, papers_with_summaries,
                   sendResult, published, committed, prevRun, found, raised, llm, scored,
                   last_request_time, requests, runs,
                   summaries>>

\* unseen_papers = state_manager.filter_unseen(papers) and
\* "if not unseen_papers: return"
FilterUnseen ==
    /\ pc = "filter"
    /\ unseen_papers' = filter_unseen(state, papers)
    /\ pc' = IF unseen_papers' = << >> THEN "done" ELSE "relevance"
    /\ UNCHANGED <<now, file, tmp, state, ret, saveDoc, exc, call, config,
                   papers, papers_to_process, papers_with_summaries,
                   sendResult, published, committed, prevRun, found, raised, llm, scored,
                   last_request_time, requests, runs,
                   summaries>>

\* the relevance block of main.  RelevanceFilter() raises without the API
\* key; the loop scores the unseen papers one by one and stops with a
\* TypeError at a paper whose title is None; "except Exception" then takes
\* unseen_papers, whose dicts carry the scores set so far, as
\* papers_to_process.  A loop that completes is followed by the selection.
Relevance ==
    /\ pc = "relevance"
    /\ IF ~config.use_relevance_filtering
       THEN /\ papers_to_process' = unseen_papers
            /\ scored' = unseen_papers
            /\ pc' = "summarize"
            /\ UNCHANGED <<raised, llm>>
       ELSE IF ~config.gemini_api_key
       THEN /\ raised' = raised \cup {"relevance_init"}
            /\ papers_to_process' = unseen_papers
            /\ scored' = unseen_papers
            /\ pc' = "summarize"
            /\ UNCHANGED llm
       ELSE LET stop == FirstUnprintable(unseen_papers)
            IN  \E responses \in [1..(stop - 1) -> LLMResponses] :
                  /\ llm' = responses
                  /\ scored' = ScoreLoop(unseen_papers, responses, stop - 1)
                  /\ IF stop <= Len(unseen_papers)
                     THEN /\ raised' = raised \cup {"relevance_loop"}
                          /\ papers_to_process' = scored'
                          /\ pc' = "summarize"
                     ELSE /\ papers_to_process' =
                                SelectPapers(scored',
                                             config.highly_relevant_threshold,
                                             config.also_relevant_threshold,
                                             config.min_total_papers)
                          /\ pc' = IF papers_to_process' = << >>
                                   THEN "done" ELSE "summarize"
                          /\ UNCHANGED raised
    /\ UNCHANGED <<now, file, tmp, state, ret, saveDoc, exc, call, config,
                   papers, unseen_papers, papers_with_summaries,
                   sendResult, published, committed, prevRun, found,
                   last_request_time, requests, runs,
                   summaries>>

\* what summarize returns for a paper: the text, the empty text left when
\* stripping and trimming keep nothing, or None when the model call gives
\* no text or raises
SummarizeResults == {"S", "", None}

\* the papers, in order, that the summarize loop appends: those with a truthy
\* summary, each with its summary field set
WithSummaries(papers_to_summarize, results) ==
    LET summarized == {i \in 1..Len(papers_to_summarize) : Truthy(results[i])}
        nth(j) == CHOOSE i \in summarized :
                     Cardinality({k \in summarized : k < i}) = j - 1
    IN  [j \in 1..Cardinality(summarized) |->
            Put(papers_to_summarize[nth(j)], "summary", results[nth(j)])]

\* the summarize stage with the limit to max_summaries left out
Summarize_NoLimit ==
    /\ pc = "summarize"
    /\ LET papers_to_summarize == papers_to_process
       IN  IF ~config.gemini_api_key
           THEN /\ raised' = raised \cup {"summarizer_init"}
                /\ pc' = "aborted"
                /\ UNCHANGED <<papers_with_summaries, summaries>>
           ELSE IF FirstUnprintable(papers_to_summarize) <= Len(papers_to_summarize)
           THEN /\ raised' = raised \cup {"summarize_loop"}
                /\ pc' = "aborted"
                /\ UNCHANGED <<papers_with_summaries, summaries>>
           ELSE \E results \in [1..Len(papers_to_summarize) -> SummarizeResults] :
                  /\ summaries' = results
                  /\ papers_with_summaries' = WithSummaries(papers_to_summarize, results)
                  /\ pc' = IF papers_with_summaries' = << >> THEN "done" ELSE "practical"
                  /\ UNCHANGED raised
    /\ UNCHANGED <<now, file, tmp, state, ret, saveDoc, exc, call, config,
                   papers, unseen_papers, papers_to_process,
                   sendResult, published, committed, prevRun, found, llm, scored,
                   last_request_time, requests, runs>>

\* the limit to max_summaries, Summarizer() (raises without the API key) and
\* the summarize loop, which stops with a TypeError at a paper whose title is
\* None: results holds what summarize returns for each paper
Summarize ==
    /\ pc = "summarize"
    /\ LET papers_to_summarize ==
                IF Len(papers_to_process) > config.max_summaries
                THEN Take(papers_to_process, config.max_summaries)
                ELSE papers_to_process
       IN  IF ~config.gemini_api_key
           THEN /\ raised' = raised \cup {"summarizer_init"}
                /\ pc' = "aborted"
                /\ UNCHANGED <<papers_with_summaries, summaries>>
           ELSE IF FirstUnprintable(papers_to_summarize) <= Len(papers_to_summarize)
           THEN /\ raised' = raised \cup {"summarize_loop"}
                /\ pc' = "aborted"
                /\ UNCHANGED <<papers_with_summaries, summaries>>
           ELSE \E results \in [1..Len(papers_to_summarize) -> SummarizeResults] :
                  /\ summaries' = results
                  /\ papers_with_summaries' = WithSummaries(papers_to_summarize, results)
                  /\ pc' = IF papers_with_summaries' = << >> THEN "done" ELSE "practical"
                  /\ UNCHANGED raised
    /\ UNCHANGED <<now, file, tmp, state, ret, saveDoc, exc, call, config,
                   papers, unseen_papers, papers_to_process,
                   sendResult, published, committed, prevRun, found, llm, scored,
                   last_request_time, requests, runs>>

\* Summarizer.generate_practical_application(paper, business_context): the
\* content enricher's business-relevance note for the paper, or None when the
\* model call gives none
generate_practical_application(paper, answered) ==
    IF answered THEN "P" ELSE None

\* the generate_practical_application loop: applied is the set of papers it
\* returns a text for
Practical ==
    /\ pc = "practical"
    /\ \E applied \in SUBSET (1..Len(papers_with_summaries)) :
          papers_with_summaries' =
              [i \in 1..Len(papers_with_summaries) |->
                  LET practical_app ==
                          generate_practical_application(papers_with_summaries[i],
                                                         i \in applied)
                  IN  IF Truthy(practical_app)
                      THEN Put(papers_with_summaries[i], "practical_application",
                               practical_app)
                      ELSE papers_with_summaries[i]]
    /\ pc' = "send"
    /\ UNCHANGED <<now, file, tmp, state, ret, saveDoc, exc, call, config,
                   papers, unseen_papers, papers_to_process,
                   sendResult, published, committed, prevRun, found, raised, llm, scored,
                   last_request_time, requests, runs,
                   summaries>>

\* the publish step with "if success" left out: every outcome of send_digest
\* goes on to mark_as_sent
Send_IgnoreSuccess ==
    /\ pc = "send"
    /\ IF ~config.recipients
       THEN /\ sendResult' = "skipped"
            /\ pc' = "done"
            /\ UNCHANGED published
       ELSE \/ /\ sendResult' = "raised"
               /\ pc' = "done"
               /\ UNCHANGED published
            \/ /\ sendResult' = "failed"
               /\ pc' = "mark"
               /\ UNCHANGED published
            \/ /\ sendResult' = "ok"
               /\ pc' = "mark"
               /\ published' = [i \in DOMAIN published |->
                                  IF i \in DigestIds /\ published[i] < 2
                                  THEN published[i] + 1 ELSE published[i]]
    /\ UNCHANGED <<now, file, tmp, state, ret, saveDoc, exc, call, config,
                   papers, unseen_papers, papers_to_process,
                   papers_with_summaries, committed, prevRun, found, raised, llm, scored,
                   last_request_time, requests, runs,
                   summaries>>

\* the publish step: no recipients, EmailSender() raises, send_digest returns
\* False, or send_digest returns True
Send ==
    /\ pc = "send"
    /\ IF ~config.recipients
       THEN /\ sendResult' = "skipped"
            /\ pc' = "done"
            /\ UNCHANGED published
       ELSE \/ /\ sendResult' \in {"raised", "failed"}
               /\ pc' = "done"
               /\ UNCHANGED published
            \/ /\ sendResult' = "ok"
               /\ pc' = "mark"
               /\ published' = [i \in DOMAIN published |->
                                  IF i \in DigestIds /\ published[i] < 2
                                  THEN published[i] + 1 ELSE published[i]]
    /\ UNCHANGED <<now, file, tmp, state, ret, saveDoc, exc, call, config,
                   papers, unseen_papers, papers_to_process,
                   papers_with_summaries, committed, prevRun, found, raised, llm, scored,
                   last_request_time, requests, runs,
                   summaries>>

\* mark_as_sent given the ids of all the unseen papers of the run
Mark_AllUnseen ==
    /\ pc = "mark"
    /\ LET withId == SelectSeq(unseen_papers,
                               LAMBDA p : Truthy(Get(p, "id", None)))
           paper_ids == [i \in 1..Len(withId) |-> withId[i].id]
           paper_metadata == [k \in Range(paper_ids) |->
                                [title |-> (CHOOSE p \in Range(withId) : p.id = k).title]]
       IN  state' = mark_as_sent(state, paper_ids, paper_metadata, now)
    /\ EnterSave(state', "mark")
    /\ UNCHANGED <<now, file, tmp, exc, call>>
    /\ UNCHANGED runVars

\* "if success": state_manager.mark_as_sent(paper_ids, paper_metadata)
Mark ==
    /\ pc = "mark"
    /\ LET withId == SelectSeq(papers_with_summaries,
                               LAMBDA p : Truthy(Get(p, "id", None)))
           paper_ids == [i \in 1..Len(withId) |-> withId[i].id]
           paper_metadata == [k \in Range(paper_ids) |->
                                [title |-> (CHOOSE p \in Range(withId) : p.id = k).title]]
       IN  state' = mark_as_sent(state, paper_ids, paper_metadata, now)
    /\ EnterSave(state', "mark")
    /\ UNCHANGED <<now, file, tmp, exc, call>>
    /\ UNCHANGED runVars

\* main returns, or ends with the traceback of an exception it does not catch
Finish ==
    /\ pc \in {"done", "aborted"}
    /\ pc' = "idle"
    /\ prevRun' = IF pc = "done" /\ sendResult \in {"failed", "raised"}
                  THEN [failed |-> TRUE, agg |-> papers, unseen |-> unseen_papers]
                  ELSE NoRun
    /\ ClearLocals
    /\ state' = EmptyState
    /\ ret' = "none"
    /\ saveDoc' = EmptyState
    /\ exc' = "none"
    /\ call' = NoCall
    /\ UNCHANGED <<now, file, tmp, published, committed, found,
                   last_request_time, requests, runs>>

\* the process is killed during a run
Crash ==
    /\ pc \notin {"idle", "done", "aborted"}
    /\ pc' = "idle"
    /\ prevRun' = NoRun
    /\ ClearLocals
    /\ state' = EmptyState
    /\ ret' = "none"
    /\ saveDoc' = EmptyState
    /\ exc' = "none"
    /\ call' = NoCall
    /\ UNCHANGED <<now, file, tmp, published, committed, found,
                   last_request_time, requests, runs>>

\* the schedule waits for the next run
Tick ==
    /\ pc = "idle"
    /\ now + TickDays * Day <= RunMaxDays * Day
    /\ now' = now + TickDays * Day
    /\ UNCHANGED <<file, tmp, state, pc, ret, saveDoc, exc, call>>
    /\ UNCHANGED runVars

Next ==
    \/ StartRun
    \/ Construct
    \/ Cleanup
    \/ SearchArxiv
    \/ SearchCrossref
    \/ SearchSemanticScholar
    \/ FilterUnseen
    \/ Relevance
    \/ Summarize
    \/ Practical
    \/ Send
    \/ Mark
    \/ Finish
    \/ Crash
    \/ Tick
    \/ SaveOpen
    \/ SaveDump
    \/ SaveReplace

Spec == Init /\ [][Next]_vars

\* ------------------------------------------------------------ aggregator harness
\* records the sources return to the search_papers call under test
A3 == [id |-> "c", doi |-> None, title |-> "T_c", date |-> << >>,
       source |-> "arxiv"]
X1 == [id |-> "a", doi |-> "a", title |-> "T_a", date |-> <<3, 0>>,
       source |-> "crossref"]
X2 == [id |-> "x", doi |-> "x", title |-> "T_x", date |-> << >>,
       source |-> "crossref"]
S1 == [id |-> "s2:p", title |-> "T_p", date |-> <<2>>,
       source |-> "semantic_scholar"]
S2 == [id |-> "s2:", title |-> "T_q", date |-> <<1>>,
       source |-> "semantic_scholar"]

AggInputs(n) ==
    {[nq |-> n,
      res |-> [arxiv |-> x, crossref |-> y, semantic_scholar |-> z]] :
        x \in [1..n -> {<< >>, <<A1>>, <<A0, A1>>, <<A1, A3>>}],
        y \in [1..n -> {<< >>, <<D1>>, <<D1, X1>>, <<X1>>, <<X2>>}],
        z \in [1..n -> {<< >>, <<S1>>, <<S2, S1>>}]}

InitAgg ==
    /\ now = 0
    /\ file = Missing
    /\ tmp = Missing
    /\ state = EmptyState
    /\ pc = "agg_call"
    /\ ret = "none"
    /\ saveDoc = EmptyState
    /\ exc = "none"
    /\ call = NoCall
    /\ config = NoConfig
    /\ papers = << >>
    /\ unseen_papers = << >>
    /\ papers_to_process = << >>
    /\ papers_with_summaries = << >>
    /\ sendResult = "none"
    /\ published = [i \in RunIds |-> 0]
    /\ committed = [i \in RunIds |-> -1]
    /\ prevRun = NoRun
    /\ \E n \in 0..NQueries : found \in AggInputs(n)
    /\ raised = {}
    /\ llm = << >>
    /\ scored = << >>
    /\ last_request_time = NoRequests
    /\ requests = NoRequests
    /\ runs = NoRuns
    /\ summaries = << >>

\* papers = search_papers(config)
AggSearch ==
    /\ pc = "agg_call"
    /\ papers' = search_papers(found.nq, found.res)
    /\ pc' = "agg_done"
    /\ UNCHANGED <<now, file, tmp, state, ret, saveDoc, exc, call, config,
                   unseen_papers, papers_to_process, papers_with_summaries,
                   sendResult, published, committed, prevRun, found, raised, llm, scored,
                   last_request_time, requests, runs,
                   summaries>>

NextAgg == AggSearch

SpecAgg == InitAgg /\ [][NextAgg]_vars

\* ------------------------------------------------------------ connector harness
\* what a provider says about the publication date of a candidate: a date
\* the connector can parse (t is its timestamp), no date, or a text the
\* connector cannot parse
ItemDates ==
    {[kind |-> "iso", t |-> (EpochDays - d) * Day] : d \in {1, 2, 31}}
        \cup {[kind |-> "absent", t |-> 0], [kind |-> "bad", t |-> 0]}

\* the candidates of a provider's response: ident is the entry id URL's last
\* part (arXiv), the DOI (Crossref) or the paperId (Semantic Scholar), None
\* when the response has none
Items == [ident : {"p", "q", None}, title : {"T", ""}, date : ItemDates]

\* datetime.isoformat() of a datetime, as a string of numbers
IsoDateTime(t) == <<t \div Day, 0>>

\* a 'YYYY-MM-DD' text, as a string of numbers
IsoDay(t) == <<t \div Day>>

\* datetime.utcnow() - timedelta(days=lookback_days)
CutoffDate(t, lookback_days) == t - lookback_days * Day

\* ArxivSearcher.search, the body of "for entry in feed.entries"
ArxivRecord(item, t, lookback_days) ==
    LET parsed == item.date.kind = "iso"
        arxiv_id == IF item.ident = None THEN "" ELSE item.ident
    IN  IF parsed /\ item.date.t < CutoffDate(t, lookback_days)
        THEN << >>
        ELSE <<[id |-> arxiv_id, doi |-> None, title |-> item.title,
                date |-> IF parsed THEN IsoDateTime(item.date.t) ELSE << >>,
                source |-> "arxiv"]>>

\* CrossrefSearcher._extract_paper_info and the "if paper" of search:
\* datetime(year, month, day) raises for date-parts that are no date and
\* the handler returns None
CrossrefRecord(item, t, lookback_days) ==
    IF item.ident \in {None, ""} THEN << >>
    ELSE IF item.title = "" THEN << >>
    ELSE IF item.date.kind = "bad" THEN << >>
    ELSE <<[id |-> item.ident, doi |-> item.ident, title |-> item.title,
            date |-> IF item.date.kind = "iso"
                     THEN IsoDateTime(item.date.t) ELSE << >>,
            source |-> "crossref"]>>

\* SemanticScholarSearcher.search, the body of "for item in data.get('data')"
SemanticScholarRecord(item, t, lookback_days) ==
    IF item.date.kind = "absent" THEN << >>
    ELSE IF item.date.kind = "bad" THEN << >>
    ELSE IF item.date.t < CutoffDate(t, lookback_days) THEN << >>
    ELSE <<[id |-> IF item.ident = None THEN "s2:" ELSE "s2:" \o item.ident,
            title |-> item.title, date |-> IsoDay(item.date.t),
            source |-> "semantic_scholar"]>>

ConnectorRecord(source, item, t, lookback_days) ==
    CASE source = "arxiv" -> ArxivRecord(item, t, lookback_days)
      [] source = "crossref" -> CrossrefRecord(item, t, lookback_days)
      [] source = "semantic_scholar" -> SemanticScholarRecord(item, t, lookback_days)

\* search() of the connector of a source on a response that parses
RECURSIVE ConnectorSearch(_, _, _, _)
ConnectorSearch(source, items, t, lookback_days) ==
    IF items = << >> THEN << >>
    ELSE ConnectorRecord(source, Head(items), t, lookback_days)
            \o ConnectorSearch(source, Tail(items), t, lookback_days)

InitConn ==
    /\ now = EpochDays * Day
    /\ file = Missing
    /\ tmp = Missing
    /\ state = EmptyState
    /\ pc = "conn_call"
    /\ ret = "none"
    /\ saveDoc = EmptyState
    /\ exc = "none"
    /\ call = NoCall
    /\ config = NoConfig
    /\ papers = << >>
    /\ unseen_papers = << >>
    /\ papers_to_process = << >>
    /\ papers_with_summaries = << >>
    /\ sendResult = "none"
    /\ published = [i \in RunIds |-> 0]
    /\ committed = [i \in RunIds |-> -1]
    /\ prevRun = NoRun
    /\ \E source \in Range(Sources), lookback_days \in DaysInputs :
          \E items \in SeqsUpTo(Items, MaxPapers) :
             found = [source |-> source, items |-> items,
                      lookback_days |-> lookback_days]
    /\ raised = {}
    /\ llm = << >>
    /\ scored = << >>
    /\ last_request_time = NoRequests
    /\ requests = NoRequests
    /\ runs = NoRuns
    /\ summaries = << >>

\* papers = searcher.search(query, lookback_days, max_results)
ConnSearch ==
    /\ pc = "conn_call"
    /\ papers' = ConnectorSearch(found.source, found.items, now, found.lookback_days)
    /\ pc' = "conn_done"
    /\ UNCHANGED <<now, file, tmp, state, ret, saveDoc, exc, call, config,
                   unseen_papers, papers_to_process, papers_with_summaries,
                   sendResult, published, committed, prevRun, found, raised, llm, scored,
                   last_request_time, requests, runs,
                   summaries>>

NextConn == ConnSearch

SpecConn == InitConn /\ [][NextConn]_vars

\* ------------------------------------------------------------ rate limiter harness
\* the instances under test: two connectors and the relevance scorer
Instances == {"arxiv", "crossref", "relevance"}

\* self.min_request_interval of an instance, in seconds
min_request_interval(inst) ==
    CASE inst = "arxiv" -> 3
      [] inst = "crossref" -> 1
      [] inst = "relevance" -> 7

\* the clock, in seconds, when the harness starts: time.time() is further
\* from the initial last_request_time 0 than any interval
StartClock == min_request_interval("relevance")

\* _rate_limit that records the time at which it was entered
rate_limit_stale(inst, t, last, overslept) ==
    LET time_since_last == t - last
        sleep_time == min_request_interval(inst) - time_since_last
        woke == IF time_since_last < min_request_interval(inst)
                THEN t + sleep_time + overslept ELSE t
    IN  [clock |-> woke, last_request_time |-> t]

\* _rate_limit entered at time t with self.last_request_time = last:
\* time.sleep blocks for sleep_time or, by overslept, longer; the result is
\* the clock at return and the new self.last_request_time
rate_limit(inst, t, last, overslept) ==
    LET time_since_last == t - last
        sleep_time == min_request_interval(inst) - time_since_last
        woke == IF time_since_last < min_request_interval(inst)
                THEN t + sleep_time + overslept ELSE t
    IN  [clock |-> woke, last_request_time |-> woke]

InitRate ==
    /\ now = StartClock
    /\ file = Missing
    /\ tmp = Missing
    /\ state = EmptyState
    /\ pc = "rate"
    /\ ret = "none"
    /\ saveDoc = EmptyState
    /\ exc = "none"
    /\ call = NoCall
    /\ config = NoConfig
    /\ papers = << >>
    /\ unseen_papers = << >>
    /\ papers_to_process = << >>
    /\ papers_with_summaries = << >>
    /\ sendResult = "none"
    /\ published = [i \in RunIds |-> 0]
    /\ committed = [i \in RunIds |-> -1]
    /\ prevRun = NoRun
    /\ found = NoFound
    /\ raised = {}
    /\ llm = << >>
    /\ scored = << >>
    /\ last_request_time = [inst \in Instances |-> 0]
    /\ requests = [inst \in Instances |-> << >>]
    /\ runs = NoRuns
    /\ summaries = << >>

\* search() or score_paper() of instance inst up to its outbound call:
\* _rate_limit(), then the request goes out
OutboundCall(inst) ==
    /\ pc = "rate"
    /\ \E overslept \in {0, 1} :
          LET r == rate_limit(inst, now, last_request_time[inst], overslept)
          IN  /\ r.clock <= MaxClock
              /\ now' = r.clock
              /\ last_request_time' =
                    [last_request_time EXCEPT ![inst] = r.last_request_time]
              /\ requests' =
                    [requests EXCEPT ![inst] =
                        IF requests[inst] = << >> THEN <<r.clock>>
                        ELSE <<requests[inst][Len(requests[inst])], r.clock>>]
    /\ UNCHANGED <<file, tmp, state, pc, ret, saveDoc, exc, call, config, papers,
                   unseen_papers, papers_to_process, papers_with_summaries,
                   sendResult, published, committed, prevRun, found, raised,
                   llm, scored, runs, summaries>>

\* a second passes: the request is answered, the caller works on the answer
RateTick ==
    /\ pc = "rate"
    /\ now < MaxClock
    /\ now' = now + 1
    /\ UNCHANGED <<file, tmp, state, pc, ret, saveDoc, exc, call>>
    /\ UNCHANGED runVars

NextRate ==
    \/ \E inst \in Instances : OutboundCall(inst)
    \/ RateTick

SpecRate == InitRate /\ [][NextRate]_vars

\* ------------------------------------------------------------ overlapping runs
\* two runs of main on one state file, from StateManager() to the end of
\* mark_as_sent; each has sent its digest with success
Runs == {1, 2}

\* the ids of the digests the two runs have sent
RunDigests == {<<"a">>, <<"b">>, <<"a", "b">>}

\* the state files the two runs find
RaceFiles ==
    {JsonDump(EmptyState),
     JsonDump([papers |-> [k \in {"c"} |->
                             [sent_date |-> IsoFormat((EpochDays - 1) * Day),
                              title |-> Title(k)]],
               last_run |-> IsoFormat((EpochDays - 1) * Day)])}

\* a write of text over a file another writer has filled since this writer
\* opened it: the bytes land on top of the other text, which gives this
\* document or, when the other text is longer, this document with a tail
Overwrite(old, doc) ==
    IF old.kind = "json" /\ old.doc # doc
    THEN {JsonDump(doc), [kind |-> "badjson", doc |-> EmptyState]}
    ELSE {JsonDump(doc)}

InitRace ==
    /\ now = EpochDays * Day
    /\ file \in RaceFiles
    /\ tmp = Missing
    /\ state = EmptyState
    /\ pc = "race"
    /\ ret = "none"
    /\ saveDoc = EmptyState
    /\ exc = "none"
    /\ call = NoCall
    /\ config = NoConfig
    /\ papers = << >>
    /\ unseen_papers = << >>
    /\ papers_to_process = << >>
    /\ papers_with_summaries = << >>
    /\ sendResult = "none"
    /\ published = [i \in RunIds |-> 0]
    /\ committed = [i \in RunIds |-> -1]
    /\ prevRun = NoRun
    /\ found = NoFound
    /\ raised = {}
    /\ llm = << >>
    /\ scored = << >>
    /\ last_request_time = NoRequests
    /\ requests = NoRequests
    /\ runs \in [Runs -> [pc : {"load"}, state : {EmptyState}, ids : RunDigests,
                          fd : {"closed"}, exc : {"none"}]]
    /\ summaries = << >>

\* the frame of a step of an overlapping run
RaceFrame ==
    UNCHANGED <<now, state, pc, ret, saveDoc, exc, call, config, papers,
                unseen_papers, papers_to_process, papers_with_summaries,
                sendResult, published, committed, prevRun, found, raised, llm,
                scored, last_request_time, requests, summaries>>

\* StateManager() of run r: _load_state of the file as it is now
RaceLoad(r) ==
    /\ runs[r].pc = "load"
    /\ runs' = [runs EXCEPT ![r].pc = "mark",
                            ![r].state = IF RaisesJSONDecodeError(file)
                                         THEN EmptyState ELSE JsonLoad(file)]
    /\ UNCHANGED <<file, tmp>>
    /\ RaceFrame

\* mark_as_sent of run r up to its _save_state call
RaceMark(r) ==
    /\ runs[r].pc = "mark"
    /\ LET paper_ids == runs[r].ids
           paper_metadata == [k \in Range(paper_ids) |-> [title |-> Title(k)]]
       IN  runs' = [runs EXCEPT ![r].pc = "save_open",
                                ![r].state = mark_as_sent(runs[r].state, paper_ids,
                                                          paper_metadata, now)]
    /\ UNCHANGED <<file, tmp>>
    /\ RaceFrame

\* open(temp_file, 'w') of run r: both runs use the one temporary path, and
\* the open empties the file a run already has open there
RaceSaveOpen(r) ==
    /\ runs[r].pc = "save_open"
    /\ tmp' = Partial(runs[r].state)
    /\ runs' = [runs EXCEPT ![r].pc = "save_dump", ![r].fd = "tmp"]
    /\ UNCHANGED file
    /\ RaceFrame

\* json.dump and the close of run r: the text goes to the file the run has
\* open, which is the canonical file once the other run has renamed it
RaceSaveDump(r) ==
    /\ runs[r].pc = "save_dump"
    /\ IF runs[r].fd = "tmp"
       THEN /\ tmp' \in Overwrite(tmp, runs[r].state)
            /\ UNCHANGED file
       ELSE /\ file' \in Overwrite(file, runs[r].state)
            /\ UNCHANGED tmp
    /\ runs' = [runs EXCEPT ![r].pc = "save_replace", ![r].fd = "closed"]
    /\ RaceFrame

\* temp_file.replace that adds the entries of the temporary file to the
\* ones of the canonical file
RaceSaveReplace_Merging(r) ==
    /\ runs[r].pc = "save_replace"
    /\ IF tmp.kind = "missing"
       THEN /\ runs' = [runs EXCEPT ![r].pc = "done", ![r].exc = "raised"]
            /\ UNCHANGED <<file, tmp>>
       ELSE /\ file' = IF tmp.kind = "json" /\ file.kind = "json"
                       THEN JsonDump([tmp.doc EXCEPT !.papers =
                                         Merge(file.doc.papers, tmp.doc.papers)])
                       ELSE tmp
            /\ tmp' = Missing
            /\ runs' = [q \in Runs |->
                           IF q = r THEN [runs[q] EXCEPT !.pc = "done"]
                           ELSE IF runs[q].fd = "tmp"
                           THEN [runs[q] EXCEPT !.fd = "file"]
                           ELSE runs[q]]
    /\ RaceFrame

\* temp_file.replace(self.state_file) of run r: the temporary file, as it is
\* now, becomes the canonical file, and a run that has it open goes on
\* writing into it; with the temporary path gone the rename raises
\* FileNotFoundError, which goes up through mark_as_sent to main
RaceSaveReplace(r) ==
    /\ runs[r].pc = "save_replace"
    /\ IF tmp.kind = "missing"
       THEN /\ runs' = [runs EXCEPT ![r].pc = "done", ![r].exc = "raised"]
            /\ UNCHANGED <<file, tmp>>
       ELSE /\ file' = tmp
            /\ tmp' = Missing
            /\ runs' = [q \in Runs |->
                           IF q = r THEN [runs[q] EXCEPT !.pc = "done"]
                           ELSE IF runs[q].fd = "tmp"
                           THEN [runs[q] EXCEPT !.fd = "file"]
                           ELSE runs[q]]
    /\ RaceFrame

NextRace ==
    \E r \in Runs :
        \/ RaceLoad(r)
        \/ RaceMark(r)
        \/ RaceSaveOpen(r)
        \/ RaceSaveDump(r)
        \/ RaceSaveReplace(r)

SpecRace == InitRace /\ [][NextRace]_vars

\* ------------------------------------------------------------ selection harness
\* the unseen papers of the run under test, newest first as search_papers
\* sorts them
SelPapers == <<A1, S1, D1>>

\* the configurations of the run under test: the thresholds in either order
SelConfigs ==
    [use_relevance_filtering : {TRUE}, recipients : {TRUE},
     max_summaries : {Len(SelPapers)}, gemini_api_key : {TRUE},
     highly_relevant_threshold : {4, 7, 10},
     also_relevant_threshold : {5, 7},
     min_total_papers : 0..(MinTotalPapers + 1)]

\* main has filtered the unseen papers and stands before the relevance block
InitSel ==
    /\ now = 0
    /\ file = JsonDump(EmptyState)
    /\ tmp = Missing
    /\ state = EmptyState
    /\ pc = "relevance"
    /\ ret = "cleanup"
    /\ saveDoc = EmptyState
    /\ exc = "none"
    /\ call = [NoCall EXCEPT !.op = "init", !.loaded = file]
    /\ config \in SelConfigs
    /\ \E n \in 1..Len(SelPapers) : papers = SubSeq(SelPapers, 1, n)
    /\ unseen_papers = papers
    /\ papers_to_process = << >>
    /\ papers_with_summaries = << >>
    /\ sendResult = "none"
    /\ published = [i \in RunIds |-> 0]
    /\ committed = [i \in RunIds |-> -1]
    /\ prevRun = NoRun
    /\ found = NoFound
    /\ raised = {}
    /\ llm = << >>
    /\ scored = << >>
    /\ last_request_time = NoRequests
    /\ requests = NoRequests
    /\ runs = NoRuns
    /\ summaries = << >>

NextSel == Relevance

SpecSel == InitSel /\ [][NextSel]_vars

\* ------------------------------------------------------------ scorer harness
\* the lists of papers given to the batch_score_papers call under test
ScoreBatches == UNION {[1..n -> {A1, S0, D1}] : n \in 1..Len(SelPapers)}

InitScore ==
    /\ now = 0
    /\ file = JsonDump(EmptyState)
    /\ tmp = Missing
    /\ state = EmptyState
    /\ pc = "batch_score"
    /\ ret = "none"
    /\ saveDoc = EmptyState
    /\ exc = "none"
    /\ call = NoCall
    /\ config = NoConfig
    /\ papers = << >>
    /\ unseen_papers \in ScoreBatches
    /\ papers_to_process = << >>
    /\ papers_with_summaries = << >>
    /\ sendResult = "none"
    /\ published = [i \in RunIds |-> 0]
    /\ committed = [i \in RunIds |-> -1]
    /\ prevRun = NoRun
    /\ found = NoFound
    /\ raised = {}
    /\ llm = << >>
    /\ scored = << >>
    /\ last_request_time = NoRequests
    /\ requests = NoRequests
    /\ runs = NoRuns
    /\ summaries = << >>

\* RelevanceFilter.batch_score_papers(unseen_papers, ...): score_paper for
\* each paper in turn; scored holds the results list, which the caller gets
\* only if no call raises
BatchScorePapers ==
    /\ pc = "batch_score"
    /\ \E responses \in [1..Len(unseen_papers) -> LLMResponses \cup OddResponses] :
          LET n == Len(unseen_papers)
              stop == IF \E i \in 1..n : score_paper_raises(unseen_papers[i], responses[i])
                      THEN CHOOSE i \in 1..n :
                              /\ score_paper_raises(unseen_papers[i], responses[i])
                              /\ \A j \in 1..(i - 1) :
                                    ~score_paper_raises(unseen_papers[j], responses[j])
                      ELSE n + 1
          IN  /\ llm' = SubSeq(responses, 1, IF stop <= n THEN stop ELSE n)
              /\ scored' = [i \in 1..(stop - 1) |->
                                score_paper(unseen_papers[i], responses[i])]
              /\ raised' = IF stop <= n THEN raised \cup {"score_paper"} ELSE raised
              /\ pc' = IF stop <= n THEN "aborted" ELSE "done"
    /\ UNCHANGED <<now, file, tmp, state, ret, saveDoc, exc, call, config,
                   papers, unseen_papers, papers_to_process,
                   papers_with_summaries, sendResult, published, committed,
                   prevRun, found, last_request_time, requests, runs,
                                   summaries>>

NextScore == BatchScorePapers

SpecScore == InitScore /\ [][NextScore]_vars

\* ------------------------------------------------------------ claims
Retention == 30 * 24 * 60 * 60

IdOf(p) == Get(p, "id", None)

\* id was persisted by a mark_as_sent and the retention window is not over
InRetention(id) ==
    /\ id \in DOMAIN committed
    /\ committed[id] >= 0
    /\ committed[id] + Retention > now

FileIds(f) == IF f.kind = "json" THEN DOMAIN f.doc.papers ELSE {}

\* C1 as stated: once mark_as_sent has persisted an id, no later
\* filter_unseen lets a paper with that id through, in any later run.
C1_Original ==
    pc = "relevance" =>
        \A i \in 1..Len(unseen_papers) :
            IdOf(unseen_papers[i]) \in DOMAIN committed
                => committed[IdOf(unseen_papers[i])] = -1

\* C1: once mark_as_sent has persisted an id, every filter_unseen of a later
\* run excludes the papers with that id for as long as its entry is in the
\* store, that is until the retention window of cleanup_old_entries(30) is over.
C1_SuppressedWithinRetention ==
    pc = "relevance" =>
        \A i \in 1..Len(unseen_papers) : ~InRetention(IdOf(unseen_papers[i]))

C1_Witness ==
    /\ pc = "relevance"
    /\ \E i \in 1..Len(papers) :
          /\ InRetention(IdOf(papers[i]))
          /\ papers[i] \notin Range(unseen_papers)

\* C2 as stated: no id is in more than one successfully published digest.
C2_Original == \A i \in DOMAIN published : published[i] <= 1

\* C2: a digest that has just been published holds no id that mark_as_sent
\* persisted less than the retention window ago: an id is published again only
\* after cleanup_old_entries(30) pruned its entry or after its mark_as_sent
\* failed to persist.
C2_OncePerRetention ==
    pc = "mark" => \A i \in DigestIds : ~InRetention(i)

C2_Witness ==
    /\ pc = "mark"
    /\ \E i \in DigestIds : published[i] = 2 /\ committed[i] >= 0

\* C3: an id is added to the state file, and mark_as_sent is entered, only in
\* a run whose send_digest returned True; mark_as_sent is followed by the end
\* of main; a publish step that fails, raises or is skipped ends the run.
C3_MarkGatedOnSuccess ==
    [][/\ FileIds(file') \subseteq FileIds(file)
            \/ (sendResult = "ok" /\ ret = "mark" /\ pc' = "done")
       /\ (ret' = "mark" /\ ret # "mark") => (sendResult = "ok" /\ pc = "mark")
       /\ (ret = "mark" /\ pc \in SavePcs /\ pc' \notin SavePcs)
            => pc' \in {"done", "idle"}
       /\ (sendResult' \in {"failed", "raised", "skipped"} /\ sendResult = "none")
            => (pc' = "done" /\ state' = state /\ file' = file)]_vars

C3_Witness ==
    /\ pc = "done"
    /\ sendResult = "ok"
    /\ DigestIds # {}
    /\ DigestIds \subseteq FileIds(file)
    /\ \A i \in DigestIds : committed[i] = now

\* C4 as stated: the run after a failed publish, given the same aggregate
\* input, computes the same unseen set.
C4_Original ==
    (pc = "relevance" /\ prevRun.failed /\ papers = prevRun.agg)
        => unseen_papers = prevRun.unseen

\* C4: the run after a failed publish, given the same aggregate input, finds
\* unseen every paper the failed run found unseen; a paper it finds unseen in
\* addition is one whose entry its cleanup_old_entries(30) pruned.
C4_SameUnseenUpToPruning ==
    (pc = "relevance" /\ prevRun.failed /\ papers = prevRun.agg)
        => /\ Range(prevRun.unseen) \subseteq Range(unseen_papers)
           /\ \A p \in Range(unseen_papers) \ Range(prevRun.unseen) :
                 /\ IdOf(p) \in DOMAIN committed
                 /\ committed[IdOf(p)] >= 0
                 /\ ~InRetention(IdOf(p))

C4_Witness ==
    /\ pc = "relevance"
    /\ prevRun.failed
    /\ papers = prevRun.agg
    /\ unseen_papers = prevRun.unseen
    /\ Len(unseen_papers) < Len(papers)

\* the records the searchers returned to the call, each with its source
Returned ==
    UNION {{<<s, p>> : p \in Range(found.res[s][q])} :
             s \in {"arxiv", "crossref", "semantic_scholar"}, q \in 1..found.nq}

ReturnedKeys == {DedupKey(r[1], r[2]) : r \in Returned} \ {"", None}

\* C5: search_papers returns one record for every distinct non-empty identity
\* key the searchers returned, each of them a record a searcher returned
\* under that key, and nothing else.
C5_OneRecordPerKey ==
    pc = "agg_done" =>
        /\ Len(papers) = Cardinality(ReturnedKeys)
        /\ {DedupKey(p.source, p) : p \in Range(papers)} = ReturnedKeys
        /\ \A p \in Range(papers) : <<p.source, p>> \in Returned

C5_Witness ==
    /\ pc = "agg_done"
    /\ found.nq = 2
    /\ Len(papers) >= 3
    /\ \E s \in {"arxiv", "crossref", "semantic_scholar"} :
          Range(found.res[s][1]) \cap Range(found.res[s][2]) # {}

\* C6: filter_unseen returns, in input order, exactly the records whose id
\* is missing, empty or not a key of the store's papers.
C6_FilterUnseen ==
    (pc = "api_returned" /\ call.op = "filter_unseen") =>
        LET inp == call.ids
            out == call.res
            passes(p) == \/ "id" \notin DOMAIN p
                         \/ p.id = ""
                         \/ p.id \notin DOMAIN state.papers
            idx == {i \in 1..Len(inp) : passes(inp[i])}
        IN  /\ Len(out) = Cardinality(idx)
            /\ \E f \in [1..Len(out) -> idx] :
                  /\ \A j, k \in 1..Len(out) : j < k => f[j] < f[k]
                  /\ \A j \in 1..Len(out) : out[j] = inp[f[j]]

C6_Witness ==
    /\ pc = "api_returned"
    /\ call.op = "filter_unseen"
    /\ Len(call.ids) = 2
    /\ Len(call.res) = 1
    /\ IdOf(call.res[1]) \in {"", None}
    /\ IdOf(call.ids[1]) \in DOMAIN state.papers

\* C7: when mark_as_sent(ids, metadata) returns, every id of ids has the
\* entry {sent_date: the time of the call} merged with metadata[id], last_run
\* is the time of the call, the other entries are as before, and the state
\* file holds the document of the in-memory store.
C7_MarkAsSent ==
    (pc = "api_returned" /\ call.op = "mark_as_sent" /\ exc = "none") =>
        LET ids == Range(call.ids)
            ts == IsoFormat(call.t)
        IN  /\ \A i \in ids :
                  /\ i \in DOMAIN state.papers
                  /\ state.papers[i].sent_date = ts
                  /\ DOMAIN state.papers[i] =
                        {"sent_date"} \cup
                        (IF i \in DOMAIN call.meta THEN DOMAIN call.meta[i] ELSE {})
                  /\ i \in DOMAIN call.meta
                        => state.papers[i].title = call.meta[i].title
            /\ state.last_run = ts
            /\ DOMAIN state.papers = DOMAIN call.pre.papers \cup ids
            /\ \A i \in DOMAIN call.pre.papers \ ids :
                  state.papers[i] = call.pre.papers[i]
            /\ file.kind = "json"
            /\ file.doc = state

C7_Witness ==
    /\ pc = "api_returned"
    /\ call.op = "mark_as_sent"
    /\ exc = "none"
    /\ call.ids # << >>
    /\ DOMAIN call.meta # {}
    /\ DOMAIN call.pre.papers \ Range(call.ids) # {}
    /\ Range(call.ids) \cap DOMAIN call.pre.papers # {}

\* C8 as stated: cleanup_old_entries(days) removes the entries whose
\* sent_date is older than now minus days and keeps every other entry, the
\* one exactly at the cutoff and the ones without a readable sent_date included.
C8_Original ==
    (pc = "api_returned" /\ call.op = "cleanup_old_entries") =>
        LET cutoff == call.t - call.days * Day
            older(e) == /\ "sent_date" \in DOMAIN e
                        /\ e.sent_date.fmt = "iso"
                        /\ e.sent_date.t < cutoff
        IN  \A i \in DOMAIN call.pre.papers :
                IF older(call.pre.papers[i])
                THEN i \notin DOMAIN state.papers
                ELSE /\ i \in DOMAIN state.papers
                     /\ state.papers[i] = call.pre.papers[i]

\* C9: the canonical state file is never a half-written file, and a step
\* that changes it is the rename that puts the complete new document there.
C9_AtomicReplace ==
    /\ [](file.kind # "partial")
    /\ [][file' # file => (pc = "save_replace" /\ file' = JsonDump(saveDoc))]_vars

C9_Witness ==
    /\ pc = "api_new"
    /\ tmp.kind = "json"
    /\ Parseable(file)
    /\ tmp.doc # file.doc

\* C10 as stated: constructing the store from a missing or corrupt state
\* file does not fail the run, and leaves the empty store.
C10_Original ==
    (call.op = "init" /\ call.loaded.kind # "json") =>
        /\ pc = "aborted" => ret = "cleanup"
        /\ pc = "cleanup" => state = EmptyState

\* the relevance block has scored every unseen paper and made its selection
ScoringCompleted ==
    /\ pc \in {"summarize", "done"}
    /\ config.use_relevance_filtering
    /\ raised = {}
    /\ Len(llm) = Len(unseen_papers)
    /\ Len(scored) = Len(unseen_papers)

ScoreOf(p) == p.relevance_score

\* the tiers of the scored papers, as positions of scored
HighlyRelevant ==
    {i \in 1..Len(scored) : ScoreOf(scored[i]) >= config.highly_relevant_threshold}

AlsoRelevant ==
    {i \in 1..Len(scored) :
        /\ config.also_relevant_threshold <= ScoreOf(scored[i])
        /\ ScoreOf(scored[i]) < config.highly_relevant_threshold}

Selected == {i \in 1..Len(scored) : scored[i] \in Range(papers_to_process)}

Max(a, b) == IF a > b THEN a ELSE b

Min(a, b) == IF a < b THEN a ELSE b

\* C11 as stated: when the scoring of a run completes, every paper whose
\* score is at least highly_relevant_threshold is in papers_to_process, for
\* any thresholds and any min_total_papers.
C11_Original ==
    ScoringCompleted => HighlyRelevant \subseteq Selected

\* C12: with also_relevant_threshold <= highly_relevant_threshold, the band
\* the also-relevant tier is defined by, the selection holds
\* max(|H|, min(min_total_papers, |H| + |A|)) papers: all of H, followed by
\* also-relevant papers in descending score order, none of them scored less
\* than an also-relevant paper that is left out.
C12_TopUp ==
    (ScoringCompleted
        /\ config.also_relevant_threshold <= config.highly_relevant_threshold) =>
        LET nH == Cardinality(HighlyRelevant)
            nA == Cardinality(AlsoRelevant)
            sel == papers_to_process
        IN  /\ Len(sel) = Max(nH, Min(config.min_total_papers, nH + nA))
            /\ Cardinality(Selected) = Len(sel)
            /\ HighlyRelevant \subseteq Selected
            /\ Selected \subseteq HighlyRelevant \cup AlsoRelevant
            /\ \A j \in 1..Len(sel) :
                  (j <= nH) = (ScoreOf(sel[j]) >= config.highly_relevant_threshold)
            /\ \A j, k \in 1..Len(sel) :
                  j < k => ScoreOf(sel[j]) >= ScoreOf(sel[k])
            /\ \A i \in AlsoRelevant \cap Selected, j \in AlsoRelevant \ Selected :
                  ScoreOf(scored[i]) >= ScoreOf(scored[j])

C12_Witness ==
    /\ ScoringCompleted
    /\ config.also_relevant_threshold <= config.highly_relevant_threshold
    /\ Cardinality(HighlyRelevant) < config.min_total_papers
    /\ Cardinality(AlsoRelevant) > config.min_total_papers
    /\ \E i \in AlsoRelevant \cap Selected, j \in AlsoRelevant \ Selected :
          /\ j < i
          /\ ScoreOf(scored[i]) > ScoreOf(scored[j])

\* the scorer gave the paper a score below also_relevant_threshold
Rejected(p) ==
    /\ "relevance_score" \in DOMAIN p
    /\ p.relevance_score < config.also_relevant_threshold

PassedOn == Range(papers_to_process) \cup Range(papers_with_summaries)

FailedOpen == raised \cap {"relevance_init", "relevance_loop"} # {}

\* C13 as stated: in a run with relevance filtering enabled no paper scored
\* below also_relevant_threshold is passed on to summarisation or publication.
C13_Original ==
    config.use_relevance_filtering => \A p \in PassedOn : ~Rejected(p)

\* C13 amended: in a run with relevance filtering enabled whose relevance
\* block has not failed open, no paper scored below also_relevant_threshold
\* is passed on to summarisation or publication.
C13_NoRejectedUnlessFailedOpen ==
    (config.use_relevance_filtering /\ ~FailedOpen) =>
        \A p \in PassedOn : ~Rejected(p)

C13_Witness ==
    /\ config.use_relevance_filtering
    /\ ~FailedOpen
    /\ \E i \in 1..Len(scored) : Rejected(scored[i])
    /\ papers_with_summaries # << >>

\* C14 as stated: a run whose relevance block failed open, because the scorer
\* could not be constructed or the scoring raised, does not end with an
\* exception: it goes on with all the unseen papers.
C14_Original ==
    FailedOpen => (pc # "aborted" /\ papers_to_process = scored)

\* C15 as stated: no search() call of a connector raises to search_papers,
\* whatever the source answers.
C15_Original == "search" \notin raised

\* C16 as stated: when the model fails for a paper, score_paper returns
\* score 0 with a diagnostic reason and does not raise, and every paper of
\* the batch gets the result of its own call.
C16_Original ==
    pc \in {"done", "aborted"} =>
        /\ "score_paper" \notin raised
        /\ Len(scored) = Len(unseen_papers)
        /\ \A i \in 1..Len(scored) :
             /\ llm[i].kind = "empty" => scored[i] = <<0, "Failed to score">>
             /\ llm[i].kind = "error" => scored[i] = <<0, "Error">>

\* the step is a step of main (the process is not killed: a killed process
\* loses its configuration) that evaluates one of the four emptiness tests
\* and finds nothing to go on with: search_papers returned no papers, filter_unseen
\* returned none, the completed scoring left every paper below the floor, or
\* the completed summarize loop left no paper with a summary
NothingLeft ==
    /\ config' = config
    /\ \/ pc = "search_semantic_scholar" /\ raised' = raised /\ papers' = << >>
       \/ pc = "filter" /\ unseen_papers' = << >>
       \/ /\ pc = "relevance"
          /\ config.use_relevance_filtering
          /\ raised' = raised
          /\ \A i \in 1..Len(scored') : Rejected(scored'[i])
       \/ pc = "summarize" /\ raised' = raised /\ papers_with_summaries' = << >>

C18_Original ==
    call.op \in {"mark_as_sent", "cleanup_old_entries"} =>
        LET before == Get(call.pre, "papers", NoPapers)
            after == Get(state, "papers", NoPapers)
        IN  \A id \in DOMAIN before :
              IF id \in DOMAIN after THEN after[id] = before[id]
              ELSE call.op = "cleanup_old_entries"

\* C19: while _save_state runs the canonical file is not touched, and when
\* _save_state ends by raising, the temporary file is gone, the canonical
\* file is as it was, and control is where the exception takes the caller of
\* the operation that wrote.
C19_FailedWrite ==
    [][/\ (pc \in SavePcs /\ pc' \in SavePcs) => file' = file
       /\ (pc \in SavePcs /\ pc' \notin SavePcs /\ exc' = "raised") =>
            /\ tmp' = Missing
            /\ file' = file
            /\ pc' = RaisePc(ret)]_vars

C19_Witness ==
    /\ pc = "api_returned"
    /\ call.op = "mark_as_sent"
    /\ exc = "raised"
    /\ tmp = Missing
    /\ Parseable(file)
    /\ file.doc # state

\* the identity namespace a source is deduplicated in
Namespace(source) == IF source = "crossref" THEN "doi" ELSE "id"

\* C20 as stated: admission is decided within the namespace of the record:
\* every identity key a source returned is the key of a record of
\* search_papers' result that comes from a source of the same namespace,
\* whatever the sources of the other namespace returned.
C20_Original ==
    pc = "agg_done" =>
        \A r \in Returned :
            Truthy(DedupKey(r[1], r[2])) =>
                \E p \in Range(papers) :
                    /\ Namespace(p.source) = Namespace(r[1])
                    /\ DedupKey(p.source, p) = DedupKey(r[1], r[2])

\* the records of the search_papers call under test in the order in which
\* the three loops admitted them
Admitted ==
    IF found.nq = 0 THEN << >>
    ELSE QueryLoop(QueryLoop(QueryLoop([all |-> << >>, seen |-> {}],
                                       "arxiv", found.res, 1, found.nq),
                             "crossref", found.res, 1, found.nq),
                   "semantic_scholar", found.res, 1, found.nq).all

\* the place of record p in the admission order
AdmittedAt(p) == CHOOSE i \in 1..Len(Admitted) : Admitted[i] = p

\* C21: the result of search_papers holds the admitted records, no date
\* string of it is smaller than the date string of a later record, the
\* records with date '' come after all the others, and records with the
\* same date string are in the order of their admission.
C21_SortedStable ==
    pc = "agg_done" =>
        /\ Len(papers) = Len(Admitted)
        /\ Range(papers) = Range(Admitted)
        /\ \A i, j \in 1..Len(papers) :
             i < j =>
               /\ ~StrLess(papers[i].date, papers[j].date)
               /\ papers[i].date = << >> => papers[j].date = << >>
               /\ papers[i].date = papers[j].date =>
                    AdmittedAt(papers[i]) < AdmittedAt(papers[j])

C21_Witness ==
    /\ pc = "agg_done"
    /\ \E i, j \in 1..Len(papers) :
         /\ i < j
         /\ papers[i].date = << >>
         /\ papers[j].date = << >>
    /\ \E i, j \in 1..Len(Admitted) :
         i < j /\ StrLess(Admitted[i].date, Admitted[j].date)

\* the identity a connector gives a candidate whose ident the provider sent
Identity(source, ident) ==
    IF source = "semantic_scholar" THEN "s2:" \o ident ELSE ident

\* the identities of the candidates of the response whose ident is resolved
ResolvedIdentities ==
    {Identity(found.source, found.items[i].ident) :
        i \in {j \in 1..Len(found.items) : found.items[j].ident # None}}

\* C22 as stated: every record a connector returns carries the identity of
\* a candidate whose identity field the response held.
C22_Original ==
    pc = "conn_done" =>
        \A p \in Range(papers) : DedupKey(found.source, p) \in ResolvedIdentities

\* the candidates of the response that have an identity and a title
Complete == {i \in 1..Len(found.items) :
                found.items[i].ident # None /\ found.items[i].title # ""}

\* C23 as stated: a candidate without a date the connector can parse is
\* returned with date '', and no candidate with a parsed date before the
\* cutoff is returned.
C23_Original ==
    pc = "conn_done" =>
        /\ \A i \in Complete :
             found.items[i].date.kind # "iso" =>
                \E p \in Range(papers) :
                    /\ DedupKey(found.source, p) =
                          Identity(found.source, found.items[i].ident)
                    /\ p.date = << >>
        /\ \A p \in Range(papers) :
             p.date # << >> =>
                p.date[1] >= CutoffDate(now, found.lookback_days) \div Day

ConnectorFields == {"id", "doi", "title", "date", "source"}

\* the fields the stages after the connector may add
StageFields == {"relevance_score", "relevance_reason", "summary",
                "practical_application"}

\* the record p as its connector made it
AsCreated(p) == [k \in DOMAIN p \cap ConnectorFields |-> p[k]]

\* the records the stages of a run hold
InFlight ==
    Range(unseen_papers) \cup Range(scored) \cup Range(papers_to_process)
        \cup Range(papers_with_summaries)

\* C25: every record a stage after the search holds is a record the search
\* returned with its connector fields unchanged, and the only fields it has
\* beyond those are relevance_score, relevance_reason, summary and
\* practical_application.
C25_FrameOfStages ==
    \A p \in InFlight :
        /\ AsCreated(p) \in Range(papers)
        /\ DOMAIN p \ ConnectorFields \subseteq StageFields

C25_Witness ==
    /\ pc = "send"
    /\ \E p \in Range(papers_with_summaries) :
          DOMAIN p = ConnectorFields \cup StageFields
    /\ \E p \in Range(papers_with_summaries) :
          "practical_application" \notin DOMAIN p

\* C26 as stated: every score score_paper returns lies in 0..10, whatever
\* the model answered.
C26_Original ==
    \A i \in 1..Len(scored) : 0 <= scored[i][1] /\ scored[i][1] <= 10

\* both overlapping runs are through mark_as_sent
BothDone == runs # NoRuns /\ \A r \in Runs : runs[r].pc = "done"

\* C27: when two runs overlap on one state file, the canonical file they
\* leave, if it is a complete document, is the document of one of the runs
\* alone: the writes are never combined, so what the other run marked after
\* its successful publish is in the final store only if that one run had
\* loaded it.  The witness is the interleaving in which an id is lost.
C27_LastWriterWins ==
    (BothDone /\ Parseable(file)) =>
        \E r \in Runs : file.doc = runs[r].state

C27_Witness ==
    /\ BothDone
    /\ \A r \in Runs : runs[r].exc = "none"
    /\ Parseable(file)
    /\ \E r \in Runs : \E id \in Range(runs[r].ids) : id \notin FileIds(file)

\* C28: no step of a run adds an id to the persisted store except the save
\* of mark_as_sent after a successful publish, and that one adds only the
\* non-empty ids of the papers of the published digest; so after a run the
\* ids of the store are among the ids it had before and those, and an unseen
\* paper that did not reach the digest is not in the store.
C28_OnlyPublishedMarked ==
    [][FileIds(file') \subseteq
          FileIds(file) \cup (IF sendResult = "ok" /\ ret = "mark"
                              THEN DigestIds ELSE {})]_vars

C28_Witness ==
    /\ pc = "done"
    /\ sendResult = "ok"
    /\ exc = "none"
    /\ DigestIds # {}
    /\ DigestIds \subseteq FileIds(file)
    /\ \E p \in Range(unseen_papers) :
          /\ Truthy(Get(p, "id", None))
          /\ p.id \notin DigestIds
          /\ p.id \notin FileIds(file)

\* the save of mark_as_sent has failed after the digest was sent
MarkFailed ==
    /\ pc = "done"
    /\ sendResult = "ok"
    /\ ret = "mark"
    /\ exc = "raised"

\* C29: a step in which the save of mark_as_sent fails after a successful
\* publish takes main to its normal end and leaves the canonical file as it
\* was; in the state it leads to, no id of the published digest is in the
\* file, so a later run that loads the file finds the papers unseen.
C29_FailedMarkIsSwallowed ==
    /\ [][(pc \in SavePcs /\ ret = "mark" /\ exc' = "raised") =>
            (pc' = "done" /\ file' = file /\ raised' = raised)]_vars
    /\ [](MarkFailed =>
            /\ DigestIds \cap FileIds(file) = {}
            /\ filter_unseen(IF Parseable(file) THEN JsonLoad(file) ELSE EmptyState,
                             papers_with_summaries) = papers_with_summaries)

C29_Witness ==
    /\ MarkFailed
    /\ DigestIds # {}
    /\ FileIds(file) # {}
    /\ tmp = Missing

\* the selected papers the summarize loop is given
FirstSelected == Take(papers_to_process, config.max_summaries)

\* the positions among them for which summarize returned a non-empty summary
Summarised == {i \in 1..Len(summaries) : summaries[i] \notin {"", None}}

\* a record of the digest without what the last two stages add
BeforeSummary(p) ==
    [k \in DOMAIN p \ {"summary", "practical_application"} |-> p[k]]

\* C30: the digest main hands to the publish step holds, in selection order,
\* exactly the papers among the first max_summaries selected ones for which
\* summarize returned a non-empty summary, each with that summary, so never
\* more than max_summaries; a paper whose practical-application generation
\* gave nothing is still in it, without the field.
C30_DigestContents ==
    (pc \in {"practical", "send", "mark"} \cup SavePcs /\ papers_with_summaries # << >>) =>
        /\ Len(summaries) = Len(FirstSelected)
        /\ Len(papers_with_summaries) = Cardinality(Summarised)
        /\ Len(papers_with_summaries) <= config.max_summaries
        /\ \A j \in 1..Len(papers_with_summaries) :
              \E i \in Summarised :
                 /\ Cardinality({k \in Summarised : k < i}) = j - 1
                 /\ BeforeSummary(papers_with_summaries[j]) = FirstSelected[i]
                 /\ papers_with_summaries[j].summary = summaries[i]
                 /\ "practical_application" \in DOMAIN papers_with_summaries[j]
                       => Truthy(papers_with_summaries[j].practical_application)

C30_Witness ==
    /\ pc = "mark"
    /\ sendResult = "ok"
    /\ Len(papers_to_process) > config.max_summaries
    /\ Len(papers_with_summaries) = config.max_summaries
    /\ \E p \in Range(papers_with_summaries) : "practical_application" \notin DOMAIN p

====
